---------------------------- MODULE Spec2Model ----------------------------
(***************************************************************************)
(* Model of hpc.autoscale.node.node: the Node resource state, the          *)
(* allocation method Node.decrement, the lifecycle methods (assign,        *)
(* update, clone, the required / closed / exists / placement_group         *)
(* setters) and the module function minimum_space.                         *)
(*                                                                         *)
(* A node is a record of the private fields the methods read and write.    *)
(* Strings that the code inspects character by character (placement        *)
(* groups) are sequences of ASCII codes; assignment ids and reasons are    *)
(* opaque strings.                                                         *)
(***************************************************************************)
EXTENDS Integers, Sequences, FiniteSets, TLC

VARIABLES
    nodes,    \* node id -> the Node object's fields, or NoNode before it is built
    result,   \* value returned by the most recent call (a MatchResult for decrement)
    raised,   \* exception that ended the most recent call, "none" when it returned
    calls,    \* constraint operations invoked by the most recent decrement
    last,     \* the most recent call: method, receiver and arguments
    packed,   \* observer: per node, the sum of the slots reported by the
              \* Success results of DecrementSlot
    served    \* observer: the nodes on which some decrement has succeeded

vars == <<nodes, result, raised, calls, last, packed, served>>

---------------------------------------------------------------------------
(* Bounds of the model. *)

MaxSlots == 2      \* largest declared resources["slots"]
MaxIter == 2       \* largest iterations argument
MaxSpace == 1      \* largest value a stub constraint returns from minimum_space

MaxPgLen == 2      \* longest placement group string passed in

NodeIds == {"n1", "n2"}
Keys == {"slots"}
Iterations == 1 .. MaxIter

\* Assignment ids: what callers pass, what uuid4() can return, and the
\* omitted argument (None; "" is falsy in the same way).
CallerIds == {"job1"}
Uuids == {"uuid-1"}
NoId == ""
AssignmentArgs == CallerIds \cup {NoId}

\* Characters of the placement groups passed in: "a", " ", "!" and "\n".
PgChars == {97, 32, 33, 10}

RECURSIVE StringsOfLen(_)
StringsOfLen(k) ==
    IF k = 0
    THEN {<<>>}
    ELSE {Append(s, ch) : s \in StringsOfLen(k - 1), ch \in PgChars}

Min(a, b) == IF a <= b THEN a ELSE b

---------------------------------------------------------------------------
(* Node objects. *)

NoNode == [built |-> FALSE]

\* Optional[PlacementGroup]: None, or a str given as its ASCII codes.
None == [some |-> FALSE, str |-> <<>>]
Str(s) == [some |-> TRUE, str |-> s]

\* Python truthiness of an Optional[str]: None and "" are falsy.
Truthy(v) == v.some /\ Len(v.str) > 0

\* Values passed as a placement group: None, "", and the short strings.
PgArgs == {None} \cup {Str(s) : s \in UNION {StringsOfLen(k) : k \in 0 .. MaxPgLen}}

\* ResourceDict values a node is declared with: {} or {"slots": s}.
EmptyDict == [k \in {} |-> 0]
ResourceDicts == {EmptyDict} \cup [Keys -> 0 .. MaxSlots]

\* Variant: the flags alone, without the assignments.
required_no_assignments(node) == node.keep_alive \/ node.allocated

\* Node.required (property): keep_alive or _allocated or bool(assignments).
required(node) == node.keep_alive \/ node.allocated \/ node.assignments # {}

\* Variant: closed is never seen.
closed_never(node) == FALSE

\* Node.closed (property).

closed(node) == node.closed

---------------------------------------------------------------------------
(* Constraints.  NodeConstraint implementations live outside node.py; the  *)
(* model uses stand-ins that implement the three operations decrement      *)
(* calls: satisfied_by_node, minimum_space and do_decrement.               *)
(*   kind "resource": needs one unit of available[key] per packed unit.    *)
(*   kind "stub": returns fixed answers and keeps its bookkeeping in a     *)
(*                private side table (no change to the node).              *)
(* reasons = NoReasons stands for a falsy result without a reasons         *)
(* attribute (a plain False).                                              *)

NoReasons == <<"<no reasons attribute>">>

SlotC == [kind |-> "resource", key |-> "slots", sat |-> TRUE,
          reasons |-> <<"no slots">>, space |-> 0, decok |-> TRUE]

Stub(sat, reasons, space, decok) ==
    [kind |-> "stub", key |-> "", sat |-> sat, reasons |-> reasons,
     space |-> space, decok |-> decok]

Constraints ==
    {SlotC}
    \cup {Stub(TRUE, <<>>, s, TRUE) : s \in -1 .. MaxSpace}
    \cup {Stub(FALSE, <<"insufficient GPU">>, 0, TRUE),
          Stub(FALSE, <<"wrong group">>, 0, TRUE),
          Stub(FALSE, NoReasons, 0, TRUE),
          Stub(TRUE, <<>>, 1, FALSE)}

ConstraintLists ==
    {<<>>} \cup {<<c>> : c \in Constraints}
           \cup {<<c, d>> : c \in Constraints, d \in Constraints}

\* constraint.satisfied_by_node(node): truthiness of the result.
satisfied_by_node(c, node) ==
    IF c.kind = "resource" THEN c.key \in DOMAIN node.available ELSE c.sat

\* constraint.minimum_space(node)
constraint_minimum_space(c, node) ==
    IF c.kind = "resource"
    THEN IF c.key \in DOMAIN node.available THEN node.available[c.key] ELSE 0
    ELSE c.space

\* constraint.do_decrement(node): the returned bool and the node afterwards.
do_decrement(c, node) ==
    IF c.kind = "resource"
    THEN IF c.key \in DOMAIN node.available /\ node.available[c.key] >= 1
         THEN [ok |-> TRUE,
               node |-> [node EXCEPT !.available[c.key] = @ - 1]]
         ELSE [ok |-> FALSE, node |-> node]
    ELSE [ok |-> c.decok, node |-> node]


---------------------------------------------------------------------------
(* minimum_space(constraints, node), node.py 555-572.  The local min_space *)
(* is None or an int: [none |-> TRUE] stands for None.                     *)

IsNone == [none |-> TRUE, val |-> 0]
Int_(v) == [none |-> FALSE, val |-> v]

\* Variant of the loop body without the "> -1" test.
min_space_step_unfiltered(min_space, constraint_min_space) ==
    IF min_space.none
    THEN Int_(constraint_min_space)
    ELSE Int_(Min(min_space.val, constraint_min_space))

\* One iteration of the loop body (lines 561-567).
min_space_step(min_space, constraint_min_space) ==
    IF constraint_min_space > -1
    THEN IF min_space.none
         THEN Int_(constraint_min_space)
         ELSE Int_(Min(min_space.val, constraint_min_space))
    ELSE min_space

RECURSIVE min_space_loop(_, _, _, _)
min_space_loop(constraints, node, i, min_space) ==
    IF i > Len(constraints)
    THEN min_space
    ELSE min_space_loop(constraints, node, i + 1,
             min_space_step(min_space,
                            constraint_minimum_space(constraints[i], node)))

\* Variant that starts from None for the empty list too.
minimum_space_unseeded(constraints, node) ==
    LET final == min_space_loop(constraints, node, 1, IsNone)
    IN  IF final.none THEN -1 ELSE final.val

minimum_space(constraints, node) ==
    LET start == IF Len(constraints) > 0 THEN IsNone ELSE Int_(1)
        final == min_space_loop(constraints, node, 1, start)
    IN  IF final.none THEN -1 ELSE final.val

---------------------------------------------------------------------------
(* Node.decrement, node.py 384-434. *)

MatchResult(status, node, slots, reasons) ==
    [status |-> status, node |-> node, slots |-> slots, reasons |-> reasons]

NoResult == MatchResult("none", "", 0, <<>>)

\* The constraint calls of one decrement: the answers of satisfied_by_node
\* (truthiness, and the reasons attribute of the falsy ones), the answers
\* of minimum_space, the number of do_decrement calls per constraint, and
\* the satisfied_by_node calls made for the assert message.  log holds the
\* logging.log calls of update: the level logged for each attribute.
NoCalls == [sat |-> <<>>, reasons |-> <<>>, space |-> <<>>, dec |-> <<>>,
            msg_sat |-> 0, log |-> EmptyDict]

\* Variant of the loop of lines 400-406 that stops at the first falsy answer.
sat_answers_short_circuit(constraints, node) ==
    LET fails == {i \in 1 .. Len(constraints) :
                    ~satisfied_by_node(constraints[i], node)}
        stop == IF fails = {}
                THEN Len(constraints)
                ELSE CHOOSE i \in fails : \A j \in fails : i <= j
    IN  [i \in 1 .. stop |-> satisfied_by_node(constraints[i], node)]

\* Lines 400-401: the answers of the satisfied_by_node calls, in call order.
sat_answers(constraints, node) ==
    [i \in 1 .. Len(constraints) |-> satisfied_by_node(constraints[i], node)]

\* What each of those answers carries as reasons (<<>> for a truthy one).
reason_answers(constraints, node, sats) ==
    [i \in DOMAIN sats |-> IF sats[i] THEN <<>> ELSE constraints[i].reasons]

\* Variant: the flag is overwritten by each constraint's answer.
is_unsatisfied_last_only(constraints, node) ==
    Len(constraints) > 0
    /\ ~satisfied_by_node(constraints[Len(constraints)], node)

\* Lines 398-406: every constraint is asked; is_unsatisfied is sticky.
is_unsatisfied(constraints, node) ==
    \E i \in 1 .. Len(constraints) : ~satisfied_by_node(constraints[i], node)

\* Variant: only the first falsy answer contributes its reasons.
first_rejection_reasons(constraints, node, i) ==
    LET fails == {j \in i .. Len(constraints) :
                    ~satisfied_by_node(constraints[j], node)}
    IN  IF fails = {}
        THEN <<>>
        ELSE LET c == constraints[CHOOSE j \in fails : \A k \in fails : j <= k]
             IN  IF c.reasons # NoReasons THEN c.reasons ELSE <<>>

\* Lines 398-406: reasons.extend(result.reasons) for every falsy answer that
\* has the attribute, from constraint i on.
RECURSIVE rejection_reasons(_, _, _)
rejection_reasons(constraints, node, i) ==
    IF i > Len(constraints)
    THEN <<>>
    ELSE LET c == constraints[i]
             own == IF ~satisfied_by_node(c, node) /\ c.reasons # NoReasons
                    THEN c.reasons
                    ELSE <<>>
         IN  own \o rejection_reasons(constraints, node, i + 1)

\* Variant without min(iterations, ...).
to_pack_unclamped(iterations, min_space) ==
    IF min_space = -1 THEN iterations ELSE min_space

\* Lines 419-422.
to_pack_of(iterations, min_space) ==
    LET ms == IF min_space = -1 THEN iterations ELSE min_space
    IN  Min(iterations, ms)

\* Lines 424-430: for each constraint, to_pack calls of do_decrement; the
\* first call that returns False fails the assert and ends the method.
\* c is the index of the constraint at hand, i the calls already made on
\* it, dec the calls made on the constraints before it.
RECURSIVE pack_loop(_, _, _, _, _, _)
pack_loop(constraints, node, to_pack, c, i, dec) ==
    IF c > Len(constraints)
    THEN [ok |-> TRUE, node |-> node, dec |-> dec]
    ELSE IF i >= to_pack
    THEN pack_loop(constraints, node, to_pack, c + 1, 0, Append(dec, i))
    ELSE LET r == do_decrement(constraints[c], node)
         IN  IF r.ok
             THEN pack_loop(constraints, r.node, to_pack, c, i + 1, dec)
             ELSE [ok |-> FALSE, node |-> r.node, dec |-> Append(dec, i + 1)]

\* Variant that does not record the assignment id.
mark_assigned_forgetful(node, assignment_id) ==
    [node EXCEPT !.allocated = TRUE]

\* Lines 432-433.
mark_assigned(node, assignment_id) ==
    [node EXCEPT !.allocated = TRUE,
                 !.assignments = @ \cup {assignment_id}]

\* Variant of lines 410-412 that reports no slots.
rejected_result_zero(self, iterations, reasons) ==
    MatchResult("NodeRejected", self, 0, reasons)

\* Lines 410-412.
rejected_result(self, iterations, reasons) ==
    MatchResult("NodeRejected", self, iterations, reasons)

\* Variant that undoes the decrements of the call when the assert fails.
after_assert_rolled_back(node, packed_node) == node

\* Lines 424-430: the AssertionError leaves the method with the node as the
\* do_decrement calls made so far have left it.
after_assert(node, packed_node) == packed_node

\* The whole method: the node afterwards, the returned MatchResult (NoResult
\* when an assert fails), the exception, and the constraint calls made.
\* self is the node's id, uuid the value uuid4() returns if it is called.
decrement(self, node, constraints, iterations, assignment_id, uuid) ==
    IF closed(node)
    THEN [node |-> node,
          result |-> MatchResult("NodeClosed", self, iterations, <<>>),
          raised |-> "none", calls |-> NoCalls]
    ELSE
    LET aid == IF assignment_id # NoId THEN assignment_id ELSE uuid
        sats == sat_answers(constraints, node)
        whys == reason_answers(constraints, node, sats)
    IN  IF is_unsatisfied(constraints, node)
        THEN [node |-> node,
              result |-> rejected_result(self, iterations,
                                         rejection_reasons(constraints, node, 1)),
              raised |-> "none",
              calls |-> [NoCalls EXCEPT !.sat = sats, !.reasons = whys]]
        ELSE
        LET spaces == [i \in 1 .. Len(constraints) |->
                          constraint_minimum_space(constraints[i], node)]
            to_pack == to_pack_of(iterations, minimum_space(constraints, node))
            p == pack_loop(constraints, node, to_pack, 1, 0, <<>>)
        IN  IF p.ok
            THEN [node |-> mark_assigned(p.node, aid),
                  result |-> MatchResult("success", self, to_pack, <<>>),
                  raised |-> "none",
                  calls |-> [NoCalls EXCEPT !.sat = sats, !.reasons = whys,
                                            !.space = spaces, !.dec = p.dec]]
            ELSE \* the assert message calls satisfied_by_node once more
                 [node |-> after_assert(node, p.node),
                  result |-> NoResult,
                  raised |-> "AssertionError",
                  calls |-> [NoCalls EXCEPT !.sat = sats, !.reasons = whys,
                                            !.space = spaces, !.dec = p.dec,
                                            !.msg_sat = 1]]

---------------------------------------------------------------------------
(* Node.placement_group (setter), node.py 199-216. *)

\* ASCII codes used below: 10 is "\n", 32 " ", 33 "!", 45 "-", 95 "_",
\* 48..57 the digits, 65..90 A-Z, 97..122 a-z.
InClass(ch) ==
    ch \in (97 .. 122) \cup (65 .. 90) \cup (48 .. 57) \cup {95, 45}

\* re.match("^[a-zA-Z0-9_-]+$", value) is not None.  "$" matches at the
\* end of the string and also just before a newline that ends the string.
re_match(value) ==
    LET body == IF Len(value) > 0 /\ value[Len(value)] = 10
                THEN SubSeq(value, 1, Len(value) - 1)
                ELSE value
    IN  Len(body) >= 1 /\ \A i \in 1 .. Len(body) : InClass(body[i])

\* Variant without the test of lines 204-210.
set_placement_group_unguarded(node, value) ==
    LET v == IF value.some /\ Len(value.str) = 0 THEN None ELSE value
    IN  IF Truthy(v) /\ ~re_match(v.str)
        THEN [node |-> node, raised |-> "RuntimeError"]
        ELSE [node |-> [node EXCEPT !.placement_group = v],
              raised |-> "none"]

\* The setter: the node afterwards and the exception raised, if any.
set_placement_group(node, value) ==
    LET v == IF value.some /\ Len(value.str) = 0 THEN None ELSE value
    IN  IF Truthy(node.placement_group) /\ v # node.placement_group
           /\ node.exists
        THEN [node |-> node, raised |-> "RuntimeError"]
        ELSE IF Truthy(v) /\ ~re_match(v.str)
        THEN [node |-> node, raised |-> "RuntimeError"]
        ELSE [node |-> [node EXCEPT !.placement_group = v],
              raised |-> "none"]

---------------------------------------------------------------------------
(* Node.set_placement_group_escaped, node.py 218-224. *)

\* Characters of the values passed to it: "a", " " and "^".
EscChars == {97, 32, 94}

RECURSIVE EscStringsOfLen(_)
EscStringsOfLen(k) ==
    IF k = 0
    THEN {<<>>}
    ELSE {Append(s, ch) : s \in EscStringsOfLen(k - 1), ch \in EscChars}

EscArgs ==
    {None} \cup {Str(s) : s \in UNION {EscStringsOfLen(k) : k \in 0 .. MaxPgLen}}

\* The characters that "[^a-zA-z0-9-_]" does not match: a-z, A-z (codes 65
\* to 122, with "[", "\", "]", "^", "_" and "`" between Z and a), 0-9, "-"
\* and "_".
InSubClass(ch) ==
    ch \in (97 .. 122) \cup (65 .. 122) \cup (48 .. 57) \cup {45, 95}

\* re.sub("[^a-zA-z0-9-_]", "_", value)
re_sub(value) ==
    [i \in 1 .. Len(value) |-> IF InSubClass(value[i]) THEN value[i] ELSE 95]

\* The method: the node afterwards and the exception the setter raises.
set_placement_group_escaped(node, value) ==
    set_placement_group(node, IF Truthy(value)
                              THEN Str(re_sub(value.str))
                              ELSE value)

---------------------------------------------------------------------------
(* Node.closed (setter), node.py 373-378. *)

\* Variant: a plain assignment.
set_closed_plain(node, value) ==
    [node |-> [node EXCEPT !.closed = value], raised |-> "none"]

set_closed(node, value) ==
    IF value
    THEN [node |-> [node EXCEPT !.closed = value], raised |-> "none"]
    ELSE IF node.closed
    THEN [node |-> node, raised |-> "RuntimeError"]
    ELSE [node |-> node, raised |-> "none"]

---------------------------------------------------------------------------
(* Node.assign (436-437), Node.required setter (109-111),                  *)
(* Node.update (458-479), Node.clone (338-367), Node.__init__ (38-103).    *)

assign(node, assignment_id) ==
    [node EXCEPT !.assignments = @ \cup {assignment_id}]

set_required(node, value) == [node EXCEPT !.allocated = value]

\* Variant: a key that a has keeps its value (dict.setdefault per key).
dict_update_keeping(a, b) ==
    [k \in DOMAIN a \cup DOMAIN b |-> IF k \in DOMAIN a THEN a[k] ELSE b[k]]

\* dict.update: the keys of b overwrite, the other keys of a stay.
dict_update(a, b) ==
    [k \in DOMAIN a \cup DOMAIN b |-> IF k \in DOMAIN b THEN b[k] ELSE a[k]]

\* Variant: the assignments of snode replace those of self.
update_replacing(self, snode) ==
    [self EXCEPT
        !.available = dict_update(self.available, snode.available),
        !.allocated = required(self) \/ required(snode)
                      \/ snode.assignments # {},
        !.assignments = snode.assignments]

\* Variant of the level test that looks at the assignments of self.
log_level_own_assignments(self, snode, attr) ==
    IF attr \notin DOMAIN self.available \/ self.assignments # {}
    THEN "FINE"
    ELSE "WARNING"

\* Lines 462-466: FINE when self has no value for attr (current_value is
\* None) or snode has assignments, WARNING otherwise.
log_level(self, snode, attr) ==
    IF attr \notin DOMAIN self.available \/ snode.assignments # {}
    THEN "FINE"
    ELSE "WARNING"

\* Lines 459-474: one logging.log call for each attribute of snode.available
\* whose value differs from self.available.get(attr).
update_log(self, snode) ==
    [attr \in {k \in DOMAIN snode.available :
                  \/ k \notin DOMAIN self.available
                  \/ self.available[k] # snode.available[k]}
        |-> log_level(self, snode, attr)]

\* Variant: required is taken from snode alone.
update_overwriting_required(self, snode) ==
    [self EXCEPT
        !.available = dict_update(self.available, snode.available),
        !.allocated = required(snode) \/ snode.assignments # {},
        !.assignments = @ \cup snode.assignments]

update(self, snode) ==
    [self EXCEPT
        !.available = dict_update(self.available, snode.available),
        !.allocated = required(self) \/ required(snode)
                      \/ snode.assignments # {},
        !.assignments = @ \cup snode.assignments]

\* The available dict and the assignments set are objects: available_id and
\* assignments_id are their identities, so that two nodes may hold the same
\* object.  NewObject is the identity of an object the call has created.
NewObject == "new"

\* __init__: the object, and the exception the placement_group setter
\* raises from line 81 (then there is no object).  available is a deepcopy
\* of the resources (line 75), assignments a new set (line 96).
init_node(exists, placement_group, resources, keep_alive) ==
    LET blank == [built |-> TRUE,
                  resources |-> resources,
                  available |-> resources,
                  available_id |-> NewObject,
                  assignments_id |-> NewObject,
                  exists |-> exists,
                  placement_group |-> None,
                  allocated |-> FALSE,
                  closed |-> FALSE,
                  assignments |-> {},
                  keep_alive |-> keep_alive]
    IN  set_placement_group(blank, placement_group)

\* Variant: the clone holds the available dict of the original instead of
\* a copy of its items.
clone_sharing_available(self) ==
    LET made == init_node(self.exists, self.placement_group,
                          self.resources, self.keep_alive)
    IN  [node |-> IF made.raised = "none"
                  THEN [made.node EXCEPT
                          !.available = self.available,
                          !.available_id = self.available_id]
                  ELSE made.node,
         raised |-> made.raised]

\* Variant: the clone takes over the allocation state of the original.
clone_copying_allocation(self) ==
    LET made == init_node(self.exists, self.placement_group,
                          self.resources, self.keep_alive)
    IN  [node |-> IF made.raised = "none"
                  THEN [made.node EXCEPT
                          !.available = dict_update(@, self.available),
                          !.assignments = self.assignments,
                          !.allocated = self.allocated,
                          !.closed = self.closed]
                  ELSE made.node,
         raised |-> made.raised]

clone(self) ==
    LET made == init_node(self.exists, self.placement_group,
                          self.resources, self.keep_alive)
    IN  [node |-> IF made.raised = "none"
                  THEN [made.node EXCEPT
                          !.available = dict_update(@, self.available)]
                  ELSE made.node,
         raised |-> made.raised]

---------------------------------------------------------------------------
(* State of the model. *)

Built(n) == nodes[n].built

\* The objects a call has created are named after the node that holds them.
Bind(node, n) ==
    [node EXCEPT !.available_id = IF @ = NewObject THEN n ELSE @,
                 !.assignments_id = IF @ = NewObject THEN n ELSE @]

\* The nodes after a method has left node n as given: a node that holds the
\* same dict or set object sees what the method wrote to it.
Store(ns, n, node) ==
    [m \in NodeIds |->
        IF m = n
        THEN node
        ELSE IF ~ns[m].built
        THEN ns[m]
        ELSE [ns[m] EXCEPT
                !.available = IF ns[m].available_id = node.available_id
                              THEN node.available ELSE @,
                !.assignments = IF ns[m].assignments_id = node.assignments_id
                                THEN node.assignments ELSE @]]

\* Ids held by some node: uuid4() returns none of them.
UsedIds == UNION {nodes[n].assignments : n \in {m \in NodeIds : Built(m)}}

\* A call: the method, the receiver, and the arguments (0, NoId, "" or None
\* for the ones the method does not take).  other is the second node of
\* the call: the argument of update, the node clone returns.  value is the
\* placement group passed to the placement_group setter.
\* draws describes the constraints passed to decrement: for each one, in
\* list order, the key of available it takes from ("" when it takes none).
Call(op, n, iterations, assignment_id, other, value) ==
    [op |-> op, node |-> n, iterations |-> iterations,
     assignment_id |-> assignment_id, other |-> other, value |-> value,
     draws |-> <<>>]

Draws(constraints) == [i \in 1 .. Len(constraints) |-> constraints[i].key]

---------------------------------------------------------------------------
(* Actions. *)

\* node.decrement(constraints, iterations, assignment_id)
DecrementCall(n, constraints, iterations, assignment_id) ==
    /\ Built(n)
    /\ \E uuid \in IF closed(nodes[n]) \/ assignment_id # NoId
                   THEN {NoId}
                   ELSE Uuids \ UsedIds :
          \E d \in {decrement(n, nodes[n], constraints, iterations,
                              assignment_id, uuid)} :
              /\ nodes' = Store(nodes, n, d.node)
              /\ result' = d.result
              /\ raised' = d.raised
              /\ calls' = d.calls
              /\ served' = IF d.result.status = "success"
                           THEN served \cup {n} ELSE served
    /\ last' = [Call("decrement", n, iterations, assignment_id, "", None)
                 EXCEPT !.draws = Draws(constraints)]

Decrement ==
    \E n \in NodeIds, constraints \in ConstraintLists,
       iterations \in Iterations, assignment_id \in AssignmentArgs :
        /\ DecrementCall(n, constraints, iterations, assignment_id)
        /\ UNCHANGED packed

\* Constraints that honour the contract of do_decrement: each one, alone,
\* can be decremented as often as its minimum_space says.
SoundConstraints == {c \in Constraints : c.decok}

SoundLists ==
    {<<>>} \cup {<<c>> : c \in SoundConstraints}
           \cup {<<c, d>> : c \in SoundConstraints, d \in SoundConstraints}

DecrementSound ==
    \E n \in NodeIds, constraints \in SoundLists,
       iterations \in Iterations, assignment_id \in AssignmentArgs :
        /\ DecrementCall(n, constraints, iterations, assignment_id)
        /\ UNCHANGED packed

\* A decrement whose only constraint is the slot constraint; packed sums
\* the slots its Success results report.
DecrementSlot ==
    \E n \in NodeIds, iterations \in Iterations,
       assignment_id \in AssignmentArgs :
        /\ DecrementCall(n, <<SlotC>>, iterations, assignment_id)
        /\ packed' = [packed EXCEPT ![n] =
                         @ + IF result'.status = "success"
                             THEN result'.slots ELSE 0]

\* A method that returns None or raises: no MatchResult, no constraint call.
Returns(call, exception) ==
    /\ result' = NoResult
    /\ raised' = exception
    /\ calls' = NoCalls
    /\ last' = call
    /\ UNCHANGED <<packed, served>>

\* node.assign(assignment_id)
Assign ==
    \E n \in NodeIds, assignment_id \in CallerIds :
        /\ Built(n)
        /\ nodes' = Store(nodes, n, assign(nodes[n], assignment_id))
        /\ Returns(Call("assign", n, 0, assignment_id, "", None), "none")

\* node.required = value
SetRequired ==
    \E n \in NodeIds, value \in BOOLEAN :
        /\ Built(n)
        /\ nodes' = [nodes EXCEPT ![n] = set_required(@, value)]
        /\ Returns(Call(IF value THEN "required=True" ELSE "required=False",
                        n, 0, NoId, "", None), "none")

\* node.closed = value
SetClosed ==
    \E n \in NodeIds, value \in BOOLEAN :
        /\ Built(n)
        /\ LET r == set_closed(nodes[n], value)
           IN  /\ nodes' = [nodes EXCEPT ![n] = r.node]
               /\ Returns(Call(IF value THEN "closed=True" ELSE "closed=False",
                               n, 0, NoId, "", None), r.raised)

\* node.update(snode); snode may be the node itself.
Update ==
    \E n \in NodeIds, m \in NodeIds :
        /\ Built(n) /\ Built(m)
        /\ nodes' = Store(nodes, n, update(nodes[n], nodes[m]))
        /\ result' = NoResult
        /\ raised' = "none"
        /\ calls' = [NoCalls EXCEPT !.log = update_log(nodes[n], nodes[m])]
        /\ last' = Call("update", n, 0, NoId, m, None)
        /\ UNCHANGED <<packed, served>>

\* c = node.clone(), kept under a free id.
Clone ==
    \E n \in NodeIds, c \in NodeIds :
        /\ Built(n) /\ ~Built(c)
        /\ LET r == clone(nodes[n])
           IN  /\ nodes' = [nodes EXCEPT
                              ![c] = IF r.raised = "none"
                                     THEN Bind(r.node, c) ELSE @]
               /\ Returns(Call("clone", n, 0, NoId, c, None), r.raised)

\* node.available[k] = v, written by a caller through the dict that the
\* available property returns.
MutateAvailable ==
    \E n \in NodeIds, k \in Keys, v \in 0 .. MaxSlots :
        /\ Built(n)
        /\ nodes' = Store(nodes, n,
                          [nodes[n] EXCEPT !.available =
                              dict_update(@, [j \in {k} |-> v])])
        /\ Returns(Call("available[]=", n, 0, NoId, "", None), "none")

\* Declared resources of the nodes of a pass: none, or MaxSlots slots.
PassResources == {EmptyDict, [k \in Keys |-> MaxSlots]}

\* Node(...) with the given arguments, kept under a free id.
NewNodeCall(n, exists, placement_group, resources, keep_alive) ==
    /\ ~Built(n)
    /\ LET r == init_node(exists, placement_group, resources, keep_alive)
       IN  /\ nodes' = [nodes EXCEPT
                          ![n] = IF r.raised = "none"
                                 THEN Bind(r.node, n) ELSE @]
           /\ Returns(Call("__init__", n, 0, NoId, "", None), r.raised)

NewNode ==
    \E n \in NodeIds, resources \in PassResources, keep_alive \in BOOLEAN :
        NewNodeCall(n, TRUE, None, resources, keep_alive)

\* node.exists = value
SetExists ==
    \E n \in NodeIds, value \in BOOLEAN :
        /\ Built(n)
        /\ nodes' = [nodes EXCEPT ![n].exists = value]
        /\ Returns(Call(IF value THEN "exists=True" ELSE "exists=False",
                        n, 0, NoId, "", None), "none")

\* node.placement_group = value
SetPlacementGroup ==
    \E n \in NodeIds, value \in PgArgs :
        /\ Built(n)
        /\ \E r \in {set_placement_group(nodes[n], value)} :
              /\ nodes' = [nodes EXCEPT ![n] = r.node]
              /\ Returns(Call("placement_group=", n, 0, NoId, "", value),
                         r.raised)

\* node.set_placement_group_escaped(value)
SetPlacementGroupEscaped ==
    \E n \in NodeIds, value \in EscArgs :
        /\ Built(n)
        /\ \E r \in {set_placement_group_escaped(nodes[n], value)} :
              /\ nodes' = [nodes EXCEPT ![n] = r.node]
              /\ Returns(Call("set_placement_group_escaped", n, 0, NoId, "",
                              value), r.raised)

\* Node(..., placement_group = value, ...) kept under a free id.
NewNodePlaced ==
    \E n \in NodeIds, exists \in BOOLEAN, value \in PgArgs :
        NewNodeCall(n, exists, value, EmptyDict, FALSE)

\* A decrement of the scheduling pass: an empty list, the slot constraint,
\* an unbounded constraint or a rejecting one.
PassLists ==
    {<<>>, <<SlotC>>, <<Stub(TRUE, <<>>, -1, TRUE)>>,
     <<Stub(FALSE, <<"insufficient GPU">>, 0, TRUE)>>}

DecrementPass ==
    \E n \in NodeIds, constraints \in PassLists,
       iterations \in Iterations, assignment_id \in AssignmentArgs :
        /\ DecrementCall(n, constraints, iterations, assignment_id)
        /\ UNCHANGED packed

---------------------------------------------------------------------------
(* Specifications.  The methods fall into groups that write disjoint       *)
(* fields: decrement with the constraint calls; the allocation flags and   *)
(* sets (assign, update, required, closed, clone); the placement group     *)
(* (placement_group, exists, __init__, clone).  Each group has its         *)
(* specification, started from a node as __init__ leaves it.               *)

\* Node n1 built by __init__ from arguments of the given sets (those it
\* accepts); n2 is not built yet.
InitWith(Exists, Groups, Resources, KeepAlive) ==
    /\ \E exists \in Exists, placement_group \in Groups,
          resources \in Resources, keep_alive \in KeepAlive :
          \E r \in {init_node(exists, placement_group, resources, keep_alive)} :
              /\ r.raised = "none"
              /\ nodes = [n \in NodeIds |->
                            IF n = "n1" THEN Bind(r.node, "n1") ELSE NoNode]
              /\ last = Call("__init__", "n1", 0, NoId, "", placement_group)
    /\ result = NoResult
    /\ raised = "none"
    /\ calls = NoCalls
    /\ packed = [n \in NodeIds |-> 0]
    /\ served = {}

\* A scheduling pass over two nodes: allocation, assignment, merges,
\* clones and the required flag.
Init == InitWith({TRUE}, {None}, PassResources, BOOLEAN)

Next ==
    \/ DecrementPass
    \/ Assign
    \/ SetRequired
    \/ Update
    \/ Clone
    \/ NewNode

Spec == Init /\ [][Next]_vars

\* The allocation engine on its own: decrement with every constraint list,
\* and closing.
InitDecrement == InitWith({TRUE}, {None}, ResourceDicts, {FALSE})

NextDecrement == Decrement \/ SetClosed

SpecDecrement == InitDecrement /\ [][NextDecrement]_vars

\* Decrements with constraints that honour the contract only.
NextSound == DecrementSound \/ SetClosed

SpecSound == InitDecrement /\ [][NextSound]_vars

\* A node with slots and its clone (n2 is built by clone only), and the
\* methods that write to the dict, the set or the closed flag of one of
\* them.
InitClone == InitWith({TRUE}, {None}, {[k \in Keys |-> MaxSlots]}, BOOLEAN)

NextClone ==
    \/ Clone
    \/ DecrementPass
    \/ Assign
    \/ Update
    \/ MutateAvailable
    \/ SetClosed

SpecClone == InitClone /\ [][NextClone]_vars

\* Repeated decrements against the slot constraint.
InitSlots == InitWith({TRUE}, {None}, [Keys -> 0 .. MaxSlots], BOOLEAN)

NextSlots == DecrementSlot \/ NewNode

SpecSlots == InitSlots /\ [][NextSlots]_vars

\* The placement group of planned and existing nodes.
InitPlacement == InitWith(BOOLEAN, PgArgs, {EmptyDict}, {FALSE})

NextPlacement ==
    \/ SetPlacementGroup
    \/ SetExists
    \/ Clone
    \/ NewNodePlaced

SpecPlacement == InitPlacement /\ [][NextPlacement]_vars

\* Escaped placement groups of planned and existing nodes.
InitEscaped == InitWith(BOOLEAN, {None}, {EmptyDict}, {FALSE})

NextEscaped == SetPlacementGroupEscaped \/ SetExists

SpecEscaped == InitEscaped /\ [][NextEscaped]_vars

---------------------------------------------------------------------------
(* Properties of decrement, checked under SpecDecrement. *)

\* The receiver of the most recent call, before and after it.
Before == nodes[last'.node]
After == nodes'[last'.node]

\* C1: a decrement on a closed node returns NodeClosed with
\* slots = iterations, for every constraint list and iterations >= 1, calls
\* no constraint operation and changes nothing of the node (available,
\* assignments, required).
C1_ClosedDecrementRefused ==
    [][(last'.op = "decrement" /\ Before.closed) =>
          /\ raised' = "none"
          /\ result'.status = "NodeClosed"
          /\ result'.slots = last'.iterations
          /\ calls' = NoCalls
          /\ nodes' = nodes
          /\ required(After) = required(Before)]_vars

C1_Witness ==
    /\ last.op = "decrement"
    /\ result.status = "NodeClosed"
    /\ result.slots = MaxIter
    /\ nodes[last.node].available # EmptyDict

\* Some satisfied_by_node call of the decrement answered false.
SomeUnsatisfied(c) == \E i \in DOMAIN c.sat : ~c.sat[i]

\* C2: on an open node, when some constraint's satisfied_by_node is false,
\* decrement returns NodeRejected, calls no do_decrement and changes
\* nothing of the node, whatever the other constraints answer.
C2_RejectedWithoutMutation ==
    [][(last'.op = "decrement" /\ ~Before.closed /\ SomeUnsatisfied(calls')) =>
          /\ raised' = "none"
          /\ result'.status = "NodeRejected"
          /\ calls'.dec = <<>>
          /\ nodes' = nodes
          /\ required(After) = required(Before)]_vars

C2_Witness ==
    /\ last.op = "decrement"
    /\ result.status = "NodeRejected"
    /\ calls.sat = <<FALSE, TRUE>>
    /\ nodes[last.node].available # EmptyDict

\* The minimum_space answers of the decrement other than -1.
FiniteSpaces(c) == {c.space[i] : i \in DOMAIN c.space} \ {-1}

Least(S) == CHOOSE x \in S : \A y \in S : x <= y

\* C3: with a non-empty list of satisfied constraints, a successful
\* decrement reports min(iterations, m) slots, m the least minimum_space
\* answer other than -1, or iterations when every answer is -1; so it
\* reports at most iterations.
C3_PackedIsMinimum ==
    (last.op = "decrement" /\ result.status = "success" /\ Len(calls.space) > 0) =>
        LET m == IF FiniteSpaces(calls) = {}
                 THEN last.iterations
                 ELSE Least(FiniteSpaces(calls))
        IN  /\ result.slots = Min(last.iterations, m)
            /\ result.slots <= last.iterations

C3_Witness ==
    /\ last.op = "decrement"
    /\ result.status = "success"
    /\ calls.space = <<-1, 1>>
    /\ last.iterations = MaxIter
    /\ result.slots = 1

\* C4: a successful decrement has called do_decrement exactly
\* to_pack = result.slots times on each constraint of the list; afterwards
\* the assignment id (the caller's, or a fresh one when omitted) is in
\* assignments and the node is required.
C4_SuccessPacksAndAssigns ==
    [][(last'.op = "decrement" /\ result'.status = "success") =>
          /\ raised' = "none"
          /\ calls'.dec = [i \in DOMAIN calls'.sat |-> result'.slots]
          /\ IF last'.assignment_id # NoId
             THEN After.assignments =
                      Before.assignments \cup {last'.assignment_id}
             ELSE \E u \in Uuids \ Before.assignments :
                      After.assignments = Before.assignments \cup {u}
          /\ After.allocated
          /\ required(After)]_vars

C4_Witness ==
    /\ last.op = "decrement"
    /\ result.status = "success"
    /\ result.slots = MaxIter
    /\ calls.dec = <<MaxIter, MaxIter>>
    /\ last.assignment_id = NoId
    /\ nodes[last.node].assignments = {"job1", "uuid-1"}

---------------------------------------------------------------------------
(* The slot constraint alone, checked under SpecSlots. *)

Slots(node) == node.available["slots"]

DeclaresSlots(node) == node.built /\ "slots" \in DOMAIN node.resources

\* C5: on an open node declared with slots, decrement against the slot
\* constraint alone returns Success with slots = min(iterations, s') and
\* leaves available.slots = s' - min(iterations, s'), s' being
\* available.slots before the call; after any sequence of such calls
\* 0 <= available.slots <= resources.slots, and the reported slots sum to
\* resources.slots - available.slots.
C5_SlotPacking ==
    /\ [][(last'.op = "decrement" /\ DeclaresSlots(Before) /\ ~Before.closed) =>
             /\ result'.status = "success"
             /\ result'.slots = Min(last'.iterations, Slots(Before))
             /\ Slots(After) = Slots(Before) - Min(last'.iterations, Slots(Before))]_vars
    /\ [](\A n \in NodeIds :
            DeclaresSlots(nodes[n]) =>
                /\ 0 <= Slots(nodes[n])
                /\ Slots(nodes[n]) <= nodes[n].resources["slots"]
                /\ packed[n] = nodes[n].resources["slots"] - Slots(nodes[n]))

C5_Witness ==
    /\ last.op = "decrement"
    /\ result.status = "success"
    /\ result.slots = 1
    /\ last.iterations = MaxIter
    /\ packed[last.node] = MaxSlots
    /\ Slots(nodes[last.node]) = 0

---------------------------------------------------------------------------
(* Assignments and the required flag, checked under Spec. *)

\* C6: over any sequence of decrement, assign, update and required-setter
\* calls, a node's assignments only grow, and a node on which a decrement
\* has succeeded is required in every later state, also after
\* required = False.
C6_AssignmentsGrowRequiredStays ==
    /\ [][\A n \in NodeIds :
            Built(n) => nodes[n].assignments \subseteq nodes'[n].assignments]_vars
    /\ [](\A n \in served : required(nodes[n]))

C6_Witness ==
    /\ last.op = "required=False"
    /\ last.node \in served
    /\ ~nodes[last.node].allocated
    /\ ~nodes[last.node].keep_alive
    /\ Cardinality(nodes[last.node].assignments) = 2

\* C7: in every state, a node with an assignment is required, whichever
\* call added the assignment and whatever was last written to required.
C7_AssignedIsRequired ==
    \A n \in NodeIds :
        (Built(n) /\ nodes[n].assignments # {}) => required(nodes[n])

C7_Witness ==
    /\ last.op = "required=False"
    /\ last.node \notin served
    /\ nodes[last.node].assignments # {}
    /\ ~nodes[last.node].keep_alive

---------------------------------------------------------------------------
(* Closing, checked under SpecDecrement. *)

\* C8: closed never goes back to false; closed = False on a closed node
\* raises and leaves it closed, on a node never closed it does nothing; so
\* every decrement after closing returns NodeClosed.
C8_ClosedIsMonotonic ==
    [][/\ \A n \in NodeIds : (Built(n) /\ nodes[n].closed) => nodes'[n].closed
       /\ (last'.op = "closed=False" /\ Before.closed) =>
              (raised' = "RuntimeError" /\ nodes' = nodes)
       /\ (last'.op = "closed=False" /\ ~Before.closed) =>
              (raised' = "none" /\ nodes' = nodes)
       /\ (last'.op = "closed=True") =>
              (raised' = "none" /\ After.closed)
       /\ (last'.op = "decrement" /\ Before.closed) =>
              result'.status = "NodeClosed"]_vars

C8_Witness ==
    /\ last.op = "closed=False"
    /\ raised = "RuntimeError"
    /\ nodes[last.node].closed
    /\ last.node \in served

---------------------------------------------------------------------------
(* The placement group, checked under SpecPlacement. *)

\* A string of letters, digits, "-" and "_" only, at least one.
Allowed(str) == Len(str) >= 1 /\ \A i \in 1 .. Len(str) : InClass(str[i])

\* What the setter stores for a value: "" counts as None.
Cleared(value) == IF value.some /\ Len(value.str) = 0 THEN None ELSE value

\* C9: on an existing node whose placement group is set to v, setting
\* another value (valid, invalid or none) raises and leaves v, setting v
\* again succeeds; on a node that does not exist, changing to another
\* valid value succeeds.  So a set placement group does not change in a
\* step from an existing node to an existing node.
C9_PlacementGroupFixedOnceExists ==
    [][/\ (last'.op = "placement_group=" /\ Before.exists
              /\ Truthy(Before.placement_group)) =>
              /\ nodes' = nodes
              /\ raised' = IF Cleared(last'.value) = Before.placement_group
                           THEN "none" ELSE "RuntimeError"
       /\ (last'.op = "placement_group=" /\ ~Before.exists
              /\ Truthy(Before.placement_group)
              /\ last'.value # Before.placement_group
              /\ Allowed(last'.value.str)) =>
              /\ raised' = "none"
              /\ After.placement_group = last'.value
       /\ \A n \in NodeIds :
              (Built(n) /\ nodes[n].exists /\ nodes'[n].exists
                  /\ Truthy(nodes[n].placement_group)) =>
                  nodes'[n].placement_group = nodes[n].placement_group]_vars

C9_Witness ==
    /\ last.op = "placement_group="
    /\ raised = "RuntimeError"
    /\ nodes[last.node].exists
    /\ Truthy(nodes[last.node].placement_group)
    /\ Allowed(last.value.str)
    /\ last.value # nodes[last.node].placement_group

\* C10: in every state, after construction and after clone too, the
\* placement group of a node is unset or a string of letters, digits, "-"
\* and "_" (a value with any other character is refused by the setter).
C10_PlacementGroupAllowed ==
    \A n \in NodeIds :
        Built(n) =>
            \/ nodes[n].placement_group = None
            \/ Allowed(nodes[n].placement_group.str)

\* The reasons carried by the falsy answers of a call log, concatenated in
\* call order from answer i on; an answer without the attribute adds none.
RECURSIVE Gathered(_, _)
Gathered(c, i) ==
    IF i > Len(c.sat)
    THEN <<>>
    ELSE (IF ~c.sat[i] /\ c.reasons[i] # NoReasons THEN c.reasons[i] ELSE <<>>)
         \o Gathered(c, i + 1)

\* C11: a decrement on an open node asks satisfied_by_node of every
\* constraint of the list, also of those after a falsy answer, and the
\* reasons of a NodeRejected result are the reasons of the falsy answers
\* concatenated in list order.
C11_AllAskedReasonsInOrder ==
    (last.op = "decrement" /\ result.status # "NodeClosed") =>
        /\ Len(calls.sat) = Len(last.draws)
        /\ Len(calls.reasons) = Len(last.draws)
        /\ result.status = "NodeRejected" => result.reasons = Gathered(calls, 1)

C11_Witness ==
    /\ last.op = "decrement"
    /\ result.status = "NodeRejected"
    /\ calls.sat = <<FALSE, FALSE>>
    /\ calls.reasons = << <<"wrong group">>, <<"insufficient GPU">> >>
    /\ result.reasons = <<"wrong group", "insufficient GPU">>

\* C12: whenever decrement returns NodeRejected, the reasons of the result
\* are not empty.
C12_RejectedHasReasons ==
    (last.op = "decrement" /\ result.status = "NodeRejected") =>
        result.reasons # <<>>

\* C13 as stated: the slots of the result are 0 on the NodeRejected path,
\* iterations on the NodeClosed path and the packed count on the success
\* path.
C13_RejectedReportsZero ==
    last.op = "decrement" =>
        /\ result.status = "NodeRejected" => result.slots = 0
        /\ result.status = "NodeClosed" => result.slots = last.iterations
        /\ result.status = "success" =>
               \A i \in DOMAIN calls.dec : calls.dec[i] = result.slots

\* C13 amended: the slots of the result are the requested iterations on
\* the NodeRejected path as on the NodeClosed path, and on the success
\* path the number of do_decrement calls made on each constraint.
C13_SlotsOfResult ==
    last.op = "decrement" =>
        /\ result.status = "NodeRejected" => result.slots = last.iterations
        /\ result.status = "NodeClosed" => result.slots = last.iterations
        /\ result.status = "success" =>
               /\ result.slots <= last.iterations
               /\ \A i \in DOMAIN calls.dec : calls.dec[i] = result.slots

C13_Witness ==
    /\ last.op = "decrement"
    /\ result.status = "NodeRejected"
    /\ last.iterations = MaxIter
    /\ result.slots = MaxIter

\* C17 as stated: when every constraint answers -1 to minimum_space, the
\* empty list included, a successful decrement reports slots = iterations.
C17_UnboundedPacksIterations ==
    (/\ last.op = "decrement"
     /\ result.status = "success"
     /\ \A i \in DOMAIN calls.space : calls.space[i] = -1) =>
        result.slots = last.iterations

\* C17 amended: when every constraint of a non-empty list answers -1 to
\* minimum_space, a successful decrement reports slots = iterations; with
\* the empty list minimum_space is 1 and it reports min(iterations, 1).
C17_UnboundedNonEmptyPacksIterations ==
    (/\ last.op = "decrement"
     /\ result.status = "success"
     /\ \A i \in DOMAIN calls.space : calls.space[i] = -1) =>
        result.slots = IF Len(last.draws) > 0
                       THEN last.iterations
                       ELSE Min(last.iterations, 1)

C17_Witness ==
    /\ last.op = "decrement"
    /\ result.status = "success"
    /\ calls.space = <<-1, -1>>
    /\ last.iterations = MaxIter
    /\ result.slots = MaxIter

\* C18: decrement adds the assignment id and marks the node required
\* exactly when it packs at least one unit; a call whose constraints are
\* all satisfied but whose minimum space is 0 adds no assignment.
C18_AssignsOnlyWhenPacked ==
    [][(last'.op = "decrement" /\ raised' = "none") =>
        IF result'.status = "success" /\ result'.slots >= 1
        THEN /\ After.assignments # {}
             /\ required(After)
        ELSE /\ After.assignments = Before.assignments
             /\ After.allocated = Before.allocated]_vars

\* C19: with constraints that honour the contract of do_decrement, two
\* constraints on the same resource included, no do_decrement call of the
\* packing loop fails: decrement raises nothing.
C19_SoundConstraintsNeverFail ==
    last.op = "decrement" => raised # "AssertionError"

\* Units the do_decrement calls of a log took from key k: every call but
\* the failed one, which is the last call logged, on a constraint that
\* draws on k.
RECURSIVE Taken(_, _, _, _)
Taken(dec, draws, k, i) ==
    IF i > Len(dec)
    THEN 0
    ELSE (IF draws[i] # k THEN 0
          ELSE IF i = Len(dec) THEN dec[i] - 1 ELSE dec[i])
         + Taken(dec, draws, k, i + 1)

\* C20: when a do_decrement call of the packing loop returns False,
\* decrement raises instead of returning a MatchResult; the decrements
\* made before stay applied to available, no do_decrement is called on a
\* later constraint, the assignment id is not added and the node is not
\* marked allocated.
C20_FailedDecrementAborts ==
    [][(last'.op = "decrement" /\ raised' = "AssertionError") =>
        /\ result' = NoResult
        /\ Len(calls'.dec) >= 1
        /\ Len(calls'.dec) <= Len(last'.draws)
        /\ \A i \in DOMAIN calls'.dec : calls'.dec[i] >= 1
        /\ After = [Before EXCEPT !.available =
                       [k \in DOMAIN Before.available |->
                           Before.available[k]
                               - Taken(calls'.dec, last'.draws, k, 1)]]]_vars

C20_Witness ==
    /\ last.op = "decrement"
    /\ raised = "AssertionError"
    /\ result = NoResult
    /\ last.draws = <<"slots", "">>
    /\ calls.dec = <<1, 1>>
    /\ nodes[last.node].assignments = {}
    /\ ~nodes[last.node].allocated
    /\ Slots(nodes[last.node]) < nodes[last.node].resources["slots"]

\* The other node of the last call, before and after the step.
OtherBefore == nodes[last'.other]
OtherAfter == nodes'[last'.other]

\* C14: after self.update(other), self.available has the value of other
\* for every key of other.available and its former value for the keys
\* other lacks; the available, assignments and required of other are
\* unchanged.
C14_UpdateMergesAvailable ==
    [][last'.op = "update" =>
        /\ DOMAIN After.available =
               DOMAIN Before.available \cup DOMAIN OtherBefore.available
        /\ \A k \in DOMAIN OtherBefore.available :
               After.available[k] = OtherBefore.available[k]
        /\ \A k \in DOMAIN Before.available \ DOMAIN OtherBefore.available :
               After.available[k] = Before.available[k]
        /\ OtherAfter.available = OtherBefore.available
        /\ OtherAfter.assignments = OtherBefore.assignments
        /\ required(OtherAfter) = required(OtherBefore)]_vars

C14_Witness ==
    /\ last.op = "update"
    /\ last.node = "n1"
    /\ last.other = "n2"
    /\ "n1" \notin served
    /\ "n2" \in served
    /\ DeclaresSlots(nodes["n1"])
    /\ Slots(nodes["n1"]) = Slots(nodes["n2"])
    /\ Slots(nodes["n1"]) < nodes["n1"].resources["slots"]

\* C15: after self.update(other), self.assignments is the union of the
\* assignments the two nodes had, and self.required is true exactly when
\* self or other was required or other had an assignment; update never
\* turns required from true to false.
C15_UpdateJoinsAssignments ==
    [][last'.op = "update" =>
        /\ After.assignments =
               Before.assignments \cup OtherBefore.assignments
        /\ required(After) = (\/ required(Before)
                              \/ required(OtherBefore)
                              \/ OtherBefore.assignments # {})
        /\ required(Before) => required(After)]_vars

C15_Witness ==
    /\ last.op = "update"
    /\ last.node # last.other
    /\ last.node \notin served
    /\ nodes[last.node].assignments = {"job1", "uuid-1"}
    /\ nodes[last.other].assignments = {"uuid-1"}
    /\ required(nodes[last.node])

\* C16: a clone shares no mutable state with its original: a decrement,
\* assign, update or direct write to available on one of the two nodes
\* leaves the available, resources, assignments, required and closed of
\* the other unchanged.
C16_CloneIsIndependent ==
    [][last'.op \in {"decrement", "assign", "update", "available[]="} =>
        \A m \in NodeIds \ {last'.node} :
            Built(m) =>
                /\ nodes'[m].available = nodes[m].available
                /\ nodes'[m].resources = nodes[m].resources
                /\ nodes'[m].assignments = nodes[m].assignments
                /\ required(nodes'[m]) = required(nodes[m])
                /\ closed(nodes'[m]) = closed(nodes[m])]_vars

C16_Witness ==
    /\ last.op = "decrement"
    /\ last.node = "n2"
    /\ result.status = "success"
    /\ result.slots >= 1
    /\ Slots(nodes["n2"]) < MaxSlots
    /\ Slots(nodes["n1"]) = MaxSlots
    /\ nodes["n1"].assignments = {}
    /\ ~required(nodes["n1"])
    /\ closed(nodes["n1"])

\* The attributes of other.available whose value differs from the value
\* self has, or that self lacks.
Differing(self, other) ==
    {k \in DOMAIN other.available :
        k \notin DOMAIN self.available
            \/ self.available[k] # other.available[k]}

\* C21: self.update(other) logs once for each key of other.available whose
\* value differs from self's and not for the equal ones; the entry is at
\* level FINE exactly when self had no value for the key or other has an
\* assignment, and at WARNING otherwise, whatever assignments self has.
C21_UpdateLogsDifferences ==
    [][last'.op = "update" =>
        /\ DOMAIN calls'.log = Differing(Before, OtherBefore)
        /\ \A k \in DOMAIN calls'.log :
               calls'.log[k] =
                   IF k \notin DOMAIN Before.available
                          \/ OtherBefore.assignments # {}
                   THEN "FINE"
                   ELSE "WARNING"]_vars

C21_Witness ==
    /\ last.op = "update"
    /\ DOMAIN calls.log = {"slots"}
    /\ calls.log["slots"] = "WARNING"
    /\ nodes[last.node].assignments # {}
    /\ nodes[last.other].assignments = {}

\* C22: c = n.clone() has the value of n.available for every key of it and
\* resources equal to n.resources, no assignments, closed false and
\* required equal to the keep_alive of n, also when n is closed or has
\* assignments; so a decrement on the clone that was just made is not
\* answered NodeClosed.
C22_CloneCarriesCapacityOnly ==
    [][/\ (last'.op = "clone" /\ raised' = "none") =>
              /\ \A k \in DOMAIN Before.available :
                     OtherAfter.available[k] = Before.available[k]
              /\ DOMAIN OtherAfter.available =
                     DOMAIN Before.available \cup DOMAIN Before.resources
              /\ OtherAfter.resources = Before.resources
              /\ OtherAfter.assignments = {}
              /\ ~closed(OtherAfter)
              /\ required(OtherAfter) = Before.keep_alive
       /\ (/\ last.op = "clone"
           /\ last'.op = "decrement"
           /\ last'.node = last.other) =>
              /\ raised' = "none"
              /\ result'.status # "NodeClosed"]_vars

C22_Witness ==
    /\ last.op = "clone"
    /\ raised = "none"
    /\ closed(nodes[last.node])
    /\ nodes[last.node].assignments # {}
    /\ ~nodes[last.node].keep_alive
    /\ Slots(nodes[last.node]) < MaxSlots
    /\ Slots(nodes[last.other]) = Slots(nodes[last.node])
    /\ nodes[last.other].assignments = {}
    /\ ~closed(nodes[last.other])
    /\ ~required(nodes[last.other])

\* A string with every character other than a letter, a digit, "-" or "_"
\* replaced by "_".
Escaped(str) == [i \in 1 .. Len(str) |-> IF InClass(str[i]) THEN str[i] ELSE 95]

\* C23: set_placement_group_escaped of a non-empty string, on a node whose
\* placement group may still change (the node does not exist, or has no
\* placement group), raises nothing and stores the string with every
\* character outside letters, digits, "-" and "_" replaced by "_", which
\* is a value the setter allows.
C23_EscapedIsAccepted ==
    [][(/\ last'.op = "set_placement_group_escaped"
        /\ Truthy(last'.value)
        /\ (~Before.exists \/ ~Truthy(Before.placement_group))) =>
           /\ raised' = "none"
           /\ After.placement_group = Str(Escaped(last'.value.str))
           /\ Allowed(After.placement_group.str)]_vars
=============================================================================
